---------------------------- MODULE Spec2Model ----------------------------
(***************************************************************************)
(* A model of the query executor of the GraphQL library: Schema.Resolve,   *)
(* the selection resolver, the argument coercion (matchInputValue), the    *)
(* name checker and the response framer (GenerateResponse).                *)
(*                                                                         *)
(* JSON fragments and error messages are TLA+ strings, built with \o the   *)
(* way the Go code builds them with + and fmt.Sprintf.                     *)
(***************************************************************************)
EXTENDS Integers, Sequences, FiniteSets, TLC

VARIABLES
    mutex,      \* Schema.m: 0 when unlocked, else the caller holding it
    pc,         \* per caller: its position inside Schema.Resolve
    args,       \* per caller: the (query, operatorTarget) it calls Resolve with
    parsed,     \* per caller: what ParseQueryAndCheckNames returned
    chosen,     \* per caller: the name of the operator it executes
    ctx,        \* per caller: its *Ctx (fragments, errors) plus the call log
    ret,        \* per caller: what Resolve returned (data, errors)
    schema,     \* the Schema: MaxDepth and the root value
    mapOrder,   \* the order in which Go's runtime iterates maps in this run
    frame,      \* one call of GenerateResponse: its input and its result
    coerce      \* one call of matchInputValue: its input and its result

vars == <<mutex, pc, args, parsed, chosen, ctx, ret, schema, mapOrder, frame, coerce>>

None == [none |-> TRUE]

-----------------------------------------------------------------------------
(* Bounds of the model *)

NumCallers == 2
MaxErrors == 2
MaxArgs == 2
MaxOps == 3
MaxDefs == 3
MaxNest == 4
MaxWidth == 3
MaxList == 2
MaxMaxDepth == 3

-----------------------------------------------------------------------------
(* Generic helpers *)

RECURSIVE JoinFrom(_, _, _)
JoinFrom(list, sep, i) ==
    IF i > Len(list) THEN ""
    ELSE (IF i > 1 THEN sep ELSE "") \o list[i] \o JoinFrom(list, sep, i + 1)

\* strings.Join
Join(list, sep) == JoinFrom(list, sep, 1)

\* the sequences over S of length 0..n
SeqsUpTo(S, n) == UNION {[1..k -> S] : k \in 0..n}

Range(f) == {f[x] : x \in DOMAIN f}

EmptyMap == [x \in {} |-> None]

-----------------------------------------------------------------------------
(* fmt's %q verb (strconv.Quote) on the characters the model uses *)

quoteChar(c) ==
    CASE c = "\"" -> "\\\""
      [] c = "\\" -> "\\\\"
      [] c = "\n" -> "\\n"
      [] OTHER -> c

RECURSIVE quoteFrom(_, _)
quoteFrom(s, i) ==
    IF i > Len(s) THEN ""
    ELSE quoteChar(SubSeq(s, i, i)) \o quoteFrom(s, i + 1)

Quote(s) == "\"" \o quoteFrom(s, 1) \o "\""

-----------------------------------------------------------------------------
(* GenerateResponse, resolve.go:10-25 *)

RECURSIVE errorEntries(_, _)
errorEntries(errors, i) ==
    IF i > Len(errors) THEN ""
    ELSE (IF i > 1 THEN "," ELSE "")
         \o "{\"message\":" \o Quote(errors[i]) \o "}"
         \o errorEntries(errors, i + 1)

GenerateResponse(data, errors) ==
    LET res == "{\"data\":" \o data
    IN  IF Len(errors) > 0
        THEN res \o "\"errors\":[" \o errorEntries(errors, 1) \o "]" \o "}"
        ELSE res \o "}"

-----------------------------------------------------------------------------
(* The parsed document (Operator, Selection, Field, Value)                 *)

\* a Field of a selection set
Field(alias, name, arguments, selection) ==
    [selectionType |-> "Field",
     field |-> [alias |-> alias, name |-> name, arguments |-> arguments,
                selection |-> selection]]

F(name, selection) == Field("", name, <<>>, selection)

FragmentSpread(name) ==
    [selectionType |-> "FragmentSpread", fragmentSpread |-> [name |-> name]]

InlineFragment(selection) ==
    [selectionType |-> "InlineFragment",
     inlineFragment |-> [selection |-> selection]]

\* one argument of a field: Field.arguments is a Go map, kept here in source
\* order and iterated in the order mapOrder gives
Arg(key, value) == [key |-> key, value |-> value]

\* an operator definition; name "" when the document gives none
Operator(operationType, name, selection) ==
    [isFragment |-> FALSE, operationType |-> operationType, name |-> name,
     directives |-> <<>>, selection |-> selection]

\* a fragment definition
Fragment(name, selection) ==
    [isFragment |-> TRUE, operationType |-> "fragment", name |-> name,
     directives |-> <<>>, selection |-> selection]

\* a query text: one that does not parse, or the definitions it holds
Document(defs) == [syntaxOk |-> TRUE, defs |-> defs]
Malformed == [syntaxOk |-> FALSE, defs |-> <<>>]

\* the literal values of arguments (Value)
VarValue(name)  == [isVar |-> TRUE,  isNull |-> FALSE, isEnum |-> FALSE, valType |-> "Invalid", v |-> name]
NullValue       == [isVar |-> FALSE, isNull |-> TRUE,  isEnum |-> FALSE, valType |-> "Invalid", v |-> 0]
EnumValue(name) == [isVar |-> FALSE, isNull |-> FALSE, isEnum |-> TRUE,  valType |-> "Invalid", v |-> name]
IntValue(i)     == [isVar |-> FALSE, isNull |-> FALSE, isEnum |-> FALSE, valType |-> "Int", v |-> i]
FloatValue(f)   == [isVar |-> FALSE, isNull |-> FALSE, isEnum |-> FALSE, valType |-> "Float64", v |-> f]
StringValue(s)  == [isVar |-> FALSE, isNull |-> FALSE, isEnum |-> FALSE, valType |-> "String", v |-> s]
BoolValue(b)    == [isVar |-> FALSE, isNull |-> FALSE, isEnum |-> FALSE, valType |-> "Bool", v |-> b]
ListValue(l)    == [isVar |-> FALSE, isNull |-> FALSE, isEnum |-> FALSE, valType |-> "Array", v |-> l]
ObjectValue(o)  == [isVar |-> FALSE, isNull |-> FALSE, isEnum |-> FALSE, valType |-> "Map", v |-> o]

-----------------------------------------------------------------------------
(* ParseQueryAndCheckNames: the name checker over the parsed definitions.  *)
(* Its code is not among the sources; it is modelled from the              *)
(* specification (4.1 Name checking) and the tests of part_001.            *)

OperationTypes == {"query", "mutation", "subscription"}

\* a numbering of the unnamed operators that starts at 0
unknownNameFromZero(operationType, n) ==
    "unknown_" \o operationType \o "_" \o ToString(n - 1)

unknownName(operationType, n) ==
    "unknown_" \o operationType \o "_" \o ToString(n)

\* a check in which a repeated operator name replaces the earlier operator
\* without an error
checkNameOverwriting(acc, item) ==
    LET unnamed == ~item.isFragment /\ item.name = ""
        n == IF unnamed THEN acc.unknown[item.operationType] + 1 ELSE 0
        named == IF unnamed
                 THEN [item EXCEPT !.name = unknownName(item.operationType, n)]
                 ELSE item
        acc1 == IF unnamed
                THEN [acc EXCEPT !.unknown[item.operationType] = n]
                ELSE acc
    IN  IF item.isFragment
        THEN IF named.name \in DOMAIN acc1.fragments
             THEN [acc1 EXCEPT !.errs = Append(@, "fragment name can only be used once")]
             ELSE [acc1 EXCEPT !.fragments = @ @@ (named.name :> named)]
        ELSE [acc1 EXCEPT !.operatorsMap = (named.name :> named) @@ @]

\* one definition checked against the maps built so far
checkName(acc, item) ==
    LET unnamed == ~item.isFragment /\ item.name = ""
        n == IF unnamed THEN acc.unknown[item.operationType] + 1 ELSE 0
        named == IF unnamed
                 THEN [item EXCEPT !.name = unknownName(item.operationType, n)]
                 ELSE item
        acc1 == IF unnamed
                THEN [acc EXCEPT !.unknown[item.operationType] = n]
                ELSE acc
    IN  IF item.isFragment
        THEN IF named.name \in DOMAIN acc1.fragments
             THEN [acc1 EXCEPT !.errs = Append(@, "fragment name can only be used once")]
             ELSE [acc1 EXCEPT !.fragments = @ @@ (named.name :> named)]
        ELSE IF named.name \in DOMAIN acc1.operatorsMap
             THEN [acc1 EXCEPT !.errs = Append(@, "operator name can only be used once")]
             ELSE [acc1 EXCEPT !.operatorsMap = @ @@ (named.name :> named)]

RECURSIVE checkNames(_, _, _)
checkNames(defs, i, acc) ==
    IF i > Len(defs) THEN acc
    ELSE checkNames(defs, i + 1, checkName(acc, defs[i]))

ParseQueryAndCheckNames(query) ==
    LET empty == [fragments |-> EmptyMap, operatorsMap |-> EmptyMap,
                  errs |-> <<>>,
                  unknown |-> [k \in OperationTypes |-> 0]]
    IN  IF ~query.syntaxOk
        THEN [empty EXCEPT !.errs = <<"unable to parse query">>]
        ELSE checkNames(query.defs, 1, empty)

-----------------------------------------------------------------------------
(* The reflected input types (Input) and the Go values the arguments are   *)
(* coerced into                                                            *)

SignedKinds == {"Int", "Int8", "Int16", "Int32", "Int64"}
UnsignedKinds == {"Uint", "Uint8", "Uint16", "Uint32", "Uint64"}
FloatKinds == {"Float32", "Float64"}

Input(kind, goFieldName) ==
    [kind |-> kind, goFieldName |-> goFieldName, isEnum |-> FALSE,
     enumKey |-> "", elem |-> None, structContent |-> EmptyMap,
     isStructPointers |-> FALSE, structName |-> ""]

PtrInput(elem, goFieldName) ==
    [Input("Ptr", goFieldName) EXCEPT !.elem = elem]

SliceInput(elem, goFieldName) ==
    [Input("Slice", goFieldName) EXCEPT !.elem = elem]

StructInput(structContent, goFieldName) ==
    [Input("Struct", goFieldName) EXCEPT !.structContent = structContent]

\* a struct input whose content is looked up in Schema.inTypes
StructRefInput(structName, goFieldName) ==
    [Input("Struct", goFieldName) EXCEPT !.isStructPointers = TRUE,
                                         !.structName = structName]

EnumInput(kind, enumKey, goFieldName) ==
    [Input(kind, goFieldName) EXCEPT !.isEnum = TRUE, !.enumKey = enumKey]

\* the process-wide enum registry: per enum, keyValue (name -> representation)
definedEnums ==
    "Status" :> [keyValue |-> ("OPEN" :> [kind |-> "String", v |-> "open"])
                          @@ ("CLOSED" :> [kind |-> "String", v |-> "closed"])]
    @@ "Level" :> [keyValue |-> ("LOW" :> [kind |-> "Int", v |-> 1])
                            @@ ("HIGH" :> [kind |-> "Uint8", v |-> 2])
                            @@ ("ODD" :> [kind |-> "Bool", v |-> TRUE])]

\* Schema.inTypes: the named input structs
inTypes ==
    "Filter" :> StructInput(
        ("done" :> Input("Bool", "Done"))
        @@ ("and" :> PtrInput(StructRefInput("Filter", ""), "And")),
        "")

\* the content of a struct input, through Schema.inTypes when deferred
structOf(input) ==
    IF input.isStructPointers THEN inTypes[input.structName] ELSE input

NilPtr == [nil |-> TRUE]
PtrTo(v) == [nil |-> FALSE, elem |-> v]
NilSlice == [nil |-> TRUE, elems |-> <<>>]
Slice(elems) == [nil |-> FALSE, elems |-> elems]
Float(text) == [float |-> text]

\* the zero value of the Go type an Input describes
RECURSIVE Zero(_)
Zero(input) ==
    CASE input.kind = "Bool" -> FALSE
      [] input.kind \in SignedKinds \cup UnsignedKinds -> 0
      [] input.kind \in FloatKinds -> Float("0")
      [] input.kind = "String" -> ""
      [] input.kind = "Ptr" -> NilPtr
      [] input.kind = "Slice" -> NilSlice
      [] input.kind = "Array" -> <<>>
      [] input.kind = "Struct" ->
            LET content == structOf(input).structContent
            IN  [g \in {content[k].goFieldName : k \in DOMAIN content} |->
                    Zero(CHOOSE i \in Range(content) : i.goFieldName = g)]

\* 2^bits for the widths the model computes with
Pow2(bits) == IF bits = 8 THEN 256 ELSE 65536

\* reflect.Value.SetInt: the int64 stored into the field's own width
SetInt(kind, x) ==
    LET bits == CASE kind = "Int8" -> 8 [] kind = "Int16" -> 16 [] OTHER -> 64
    IN  IF bits = 64 THEN x
        ELSE ((x + Pow2(bits) \div 2) % Pow2(bits)) - Pow2(bits) \div 2

\* reflect.Value.SetUint of uint64(x): a negative literal wraps around
SetUint(kind, x) ==
    LET bits == CASE kind = "Uint8" -> 8 [] kind = "Uint16" -> 16 [] OTHER -> 64
    IN  IF bits = 64
        THEN IF x >= 0 THEN x ELSE [twoToThe |-> kind, plus |-> x]
        ELSE x % Pow2(bits)

\* the order in which a Go map of n entries, written down as entries 1..n, is
\* iterated in this run
IterOrder(n) == SelectSeq(mapOrder, LAMBDA k : k <= n)

-----------------------------------------------------------------------------
(* Ctx.matchInputValue, resolve.go:184-350.  The result is the error       *)
(* (<<>> for nil), the value goField holds afterwards, and whether goField *)
(* was assigned.                                                           *)

kindName(kind) ==
    CASE kind = "Bool" -> "a boolean"
      [] kind \in SignedKinds \cup UnsignedKinds -> "a number"
      [] kind \in FloatKinds -> "a float"
      [] kind \in {"Array", "Slice"} -> "an array"
      [] kind = "String" -> "a string"
      [] kind = "Struct" -> "a object"
      [] kind = "Ptr" -> "optional type"
      [] OTHER -> "an unknown type"

mismatchError(goFieldKind) ==
    <<"function arguments type missmatch expected " \o kindName(goFieldKind)>>

Failed(err, goField) == [err |-> err, val |-> goField, assigned |-> FALSE]
Assigned(val) == [err |-> <<>>, val |-> val, assigned |-> TRUE]
Untouched(goField) == [err |-> <<>>, val |-> goField, assigned |-> FALSE]

\* resolve.go:250-270
matchEnum(queryValue, goField, goAnylizedData) ==
    IF ~goAnylizedData.isEnum THEN Failed(mismatchError(goAnylizedData.kind), goField)
    ELSE LET enum == definedEnums[goAnylizedData.enumKey]
         IN  IF queryValue.v \notin DOMAIN enum.keyValue
             THEN Failed(<<"unknown enum value " \o queryValue.v \o " for enum "
                           \o goAnylizedData.enumKey>>, goField)
             ELSE LET value == enum.keyValue[queryValue.v]
                  IN  CASE value.kind = "String" -> Assigned(value.v)
                        [] value.kind \in SignedKinds ->
                              Assigned(SetInt(goAnylizedData.kind, value.v))
                        [] value.kind \in UnsignedKinds ->
                              Assigned(SetUint(goAnylizedData.kind, value.v))
                        [] OTHER ->
                              Failed(<<"internal error, type missmatch on enum">>, goField)

\* a coercion that takes a Float literal for every number kind
matchScalarFloatAsNumber(queryValue, goField, goFieldKind) ==
    CASE queryValue.valType \in {"Int", "Float64"} ->
            (CASE goFieldKind \in SignedKinds \cup UnsignedKinds -> Assigned(0)
               [] goFieldKind \in FloatKinds -> Assigned(Float("0"))
               [] OTHER -> Failed(mismatchError(goFieldKind), goField))
      [] queryValue.valType = "String" ->
            IF goFieldKind = "String" THEN Assigned(queryValue.v)
            ELSE Failed(mismatchError(goFieldKind), goField)
      [] queryValue.valType = "Bool" ->
            IF goFieldKind = "Bool" THEN Assigned(queryValue.v)
            ELSE Failed(mismatchError(goFieldKind), goField)

\* resolve.go:273-303: the scalar literals
matchScalar(queryValue, goField, goFieldKind) ==
    CASE queryValue.valType = "Int" ->
            (CASE goFieldKind \in SignedKinds -> Assigned(SetInt(goFieldKind, queryValue.v))
               [] goFieldKind \in UnsignedKinds -> Assigned(SetUint(goFieldKind, queryValue.v))
               [] goFieldKind \in FloatKinds -> Assigned(Float(ToString(queryValue.v)))
               [] OTHER -> Failed(mismatchError(goFieldKind), goField))
      [] queryValue.valType = "Float64" ->
            IF goFieldKind \in FloatKinds THEN Assigned(Float(queryValue.v))
            ELSE Failed(mismatchError(goFieldKind), goField)
      [] queryValue.valType = "String" ->
            IF goFieldKind = "String" THEN Assigned(queryValue.v)
            ELSE Failed(mismatchError(goFieldKind), goField)
      [] queryValue.valType = "Bool" ->
            IF goFieldKind = "Bool" THEN Assigned(queryValue.v)
            ELSE Failed(mismatchError(goFieldKind), goField)

RECURSIVE matchInputValue(_, _, _)
RECURSIVE matchList(_, _, _, _)
RECURSIVE matchObject(_, _, _, _)

\* resolve.go:311-317: the elements of a list literal, from index i (0-based
\* in the message), into the freshly made slice arr
matchList(listValue, i, arr, elem) ==
    IF i > Len(listValue) THEN [err |-> <<>>, val |-> arr]
    ELSE LET r == matchInputValue(listValue[i], arr[i], elem)
         IN  IF r.err # <<>>
             THEN [err |-> <<r.err[1] \o ", Array index: [" \o ToString(i - 1) \o "]">>,
                   val |-> arr]
             ELSE matchList(listValue, i + 1, [arr EXCEPT ![i] = r.val], elem)

\* resolve.go:329-340: the keys of an object literal, in map order, into the
\* fields of the struct goField
matchObject(objectValue, order, goField, goAnylizedData) ==
    IF order = <<>> THEN [err |-> <<>>, val |-> goField]
    ELSE LET queryKey == objectValue[Head(order)].key
             arg == objectValue[Head(order)].value
         IN  IF queryKey \notin DOMAIN goAnylizedData.structContent
             THEN [err |-> <<"undefined property " \o queryKey>>, val |-> goField]
             ELSE LET structItemMeta == goAnylizedData.structContent[queryKey]
                      field == structItemMeta.goFieldName
                      r == matchInputValue(arg, goField[field], structItemMeta)
                  IN  IF r.err # <<>>
                      THEN [err |-> <<r.err[1] \o ", property: " \o queryKey>>,
                            val |-> [goField EXCEPT ![field] = r.val]]
                      ELSE matchObject(objectValue, Tail(order),
                                       [goField EXCEPT ![field] = r.val],
                                       goAnylizedData)

matchInputValue(queryValue, goField, goAnylizedData) ==
    LET goFieldKind == goAnylizedData.kind
    IN  IF goFieldKind = "Ptr"
        THEN IF queryValue.isNull THEN Untouched(goField)
             ELSE LET r == matchInputValue(queryValue, Zero(goAnylizedData.elem),
                                           goAnylizedData.elem)
                  IN  IF r.err # <<>> THEN Failed(r.err, goField)
                      ELSE Assigned(PtrTo(r.val))
        ELSE IF queryValue.isVar
        THEN Failed(<<"variable function arguments are currently unsupported">>, goField)
        ELSE IF queryValue.isNull THEN Untouched(goField)
        ELSE IF queryValue.isEnum THEN matchEnum(queryValue, goField, goAnylizedData)
        ELSE IF queryValue.valType \in {"Int", "Float64", "String", "Bool"}
        THEN matchScalar(queryValue, goField, goFieldKind)
        ELSE IF queryValue.valType = "Array"
        THEN IF goFieldKind = "Array"
             THEN Failed(<<"fixed length arrays not supported">>, goField)
             ELSE IF goFieldKind = "Slice"
             THEN LET n == Len(queryValue.v)
                      r == matchList(queryValue.v, 1,
                                     [k \in 1..n |-> Zero(goAnylizedData.elem)],
                                     goAnylizedData.elem)
                  IN  IF r.err # <<>> THEN Failed(r.err, goField)
                      ELSE Assigned(Slice(r.val))
             ELSE Failed(mismatchError(goFieldKind), goField)
        ELSE IF queryValue.valType = "Map"
        THEN IF goFieldKind = "Struct"
             THEN LET r == matchObject(queryValue.v, IterOrder(Len(queryValue.v)),
                                       goField, structOf(goAnylizedData))
                  IN  [err |-> r.err, val |-> r.val,
                       assigned |-> r.val # goField]
             ELSE Failed(mismatchError(goFieldKind), goField)
        ELSE Failed(<<"undefined function input type">>, goField)

-----------------------------------------------------------------------------
(* The reflected output types (Obj) of the schema under test: the todo     *)
(* schema of part_000, with a recursive Todo (next, subs) so that queries  *)
(* can nest deeper than MaxDepth                                           *)

Obj(valueType, typeName, structFieldName) ==
    [valueType |-> valueType, typeName |-> typeName,
     structFieldName |-> structFieldName, objContents |-> EmptyMap,
     innerContent |-> None, method |-> None, enumKey |-> "",
     customObjValue |-> None]

DataObj(structFieldName) == Obj("Data", "", structFieldName)
ObjRef(typeName, structFieldName) == Obj("ObjRef", typeName, structFieldName)
PtrObj(inner, structFieldName) ==
    [Obj("Ptr", "", structFieldName) EXCEPT !.innerContent = inner]
ArrayObj(inner, structFieldName) ==
    [Obj("Array", "", structFieldName) EXCEPT !.innerContent = inner]
EnumObj(enumKey, structFieldName) ==
    [Obj("Enum", "", structFieldName) EXCEPT !.enumKey = enumKey]
MethodObj(method, structFieldName) ==
    [Obj("Method", "", structFieldName) EXCEPT !.method = method]
StructObj(typeName, objContents) ==
    [Obj("Obj", typeName, "") EXCEPT !.objContents = objContents]

\* enum.valueKey of the registry: representation -> name
enumValueKey ==
    "Status" :> (("open" :> "OPEN") @@ ("closed" :> "CLOSED"))

TodoType ==
    StructObj("Todo",
        ("id" :> DataObj("ID"))
        @@ ("title" :> DataObj("Title"))
        @@ ("done" :> DataObj("Done"))
        @@ ("status" :> EnumObj("Status", "Status"))
        @@ ("next" :> PtrObj(ObjRef("Todo", ""), "Next"))
        @@ ("subs" :> ArrayObj(ObjRef("Todo", ""), "Subs")))

\* Schema.types
types == "Todo" :> TodoType

\* todo(id: ID!): Todo
todoMethod ==
    [isTypeMethod |-> TRUE,
     ins |-> <<[isCtx |-> FALSE,
                type_ |-> StructInput("id" :> Input("String", "ID"), "")]>>,
     inFields |-> "id" :> [inputIdx |-> 0, input |-> Input("String", "ID")],
     errorOutNr |-> <<>>, outNr |-> 0,
     outType |-> PtrObj(ObjRef("Todo", ""), "")]

\* count: a function-valued field of the root, nil when not set
countMethod ==
    [isTypeMethod |-> FALSE, ins |-> <<>>, inFields |-> EmptyMap,
     errorOutNr |-> <<>>, outNr |-> 0, outType |-> DataObj("")]

\* createTodo(title: String!): Todo!
createTodoMethod ==
    [isTypeMethod |-> TRUE,
     ins |-> <<[isCtx |-> FALSE,
                type_ |-> StructInput("title" :> Input("String", "Title"), "")]>>,
     inFields |-> "title" :> [inputIdx |-> 0, input |-> Input("String", "Title")],
     errorOutNr |-> <<>>, outNr |-> 0,
     outType |-> TodoType]

updateTodoArgs ==
    ("id" :> Input("String", "ID"))
    @@ ("title" :> PtrInput(Input("String", ""), "Title"))
    @@ ("done" :> PtrInput(Input("Bool", ""), "Done"))
    @@ ("rank" :> Input("Uint8", "Rank"))

\* updateTodo(done: Boolean, id: ID!, title: String, rank: Int): (Todo!, error),
\* a method that also takes the *Ctx
updateTodoMethod ==
    [isTypeMethod |-> TRUE,
     ins |-> <<[isCtx |-> TRUE, type_ |-> None],
               [isCtx |-> FALSE, type_ |-> StructInput(updateTodoArgs, "")]>>,
     inFields |-> [k \in DOMAIN updateTodoArgs |->
                      [inputIdx |-> 1, input |-> updateTodoArgs[k]]],
     errorOutNr |-> <<1>>, outNr |-> 0,
     outType |-> TodoType]

rootQuery ==
    StructObj("QueryRoot",
        ("todos" :> ArrayObj(ObjRef("Todo", ""), "Todos"))
        @@ ("tags" :> ArrayObj(DataObj(""), "Tags"))
        @@ ("first" :> PtrObj(ObjRef("Todo", ""), "First"))
        @@ ("todo" :> MethodObj(todoMethod, "ResolveTodo"))
        @@ ("count" :> MethodObj(countMethod, "Count")))

rootMethod ==
    StructObj("MethodRoot",
        ("createTodo" :> MethodObj(createTodoMethod, "ResolveCreateTodo"))
        @@ ("updateTodo" :> MethodObj(updateTodoMethod, "ResolveUpdateTodo")))

-----------------------------------------------------------------------------
(* The Go values behind the schema: the root value and its todos           *)

DataVal(kind, v) == [kind |-> kind, v |-> v]

TodoVal(id, title, done, status, next, subs) ==
    [ID |-> DataVal("string", id), Title |-> DataVal("string", title),
     Done |-> DataVal("bool", done), Status |-> status,
     Next |-> next, Subs |-> subs]

ZeroTodo == TodoVal("", "", FALSE, "", NilPtr, NilSlice)

Todo3 == TodoVal("3", "c", TRUE, "closed", NilPtr, Slice(<<>>))
Todo2 == TodoVal("2", "say \"b\"", FALSE, "lost", PtrTo(Todo3), NilSlice)
Todo1 == TodoVal("1", "a", FALSE, "open", PtrTo(Todo2), Slice(<<Todo2, Todo3>>))

RootVal(todos, tags, first, count) ==
    [Todos |-> todos, Tags |-> tags, First |-> first, Count |-> count]

\* the methods of the root value's type
rootMethods == {"ResolveTodo", "ResolveCreateTodo", "ResolveUpdateTodo"}

\* reflect.Value.MethodByName / FieldByName on the root or on a todo
MethodByName(struct_, name) == [nil |-> FALSE, fn |-> name, recv |-> struct_]
FieldByName(struct_, name) == struct_[name]

\* a value of the error output of a method: nil, or an error
NilError == [nil |-> TRUE, isError |-> TRUE, msg |-> ""]
ErrorValue(msg) == [nil |-> FALSE, isError |-> TRUE, msg |-> msg]

RECURSIVE findTodo(_, _, _)
findTodo(todos, id, i) ==
    IF i > Len(todos) THEN NilPtr
    ELSE IF todos[i].ID.v = id THEN PtrTo(todos[i])
    ELSE findTodo(todos, id, i + 1)

\* the user's methods: reflect.Value.Call on the method value with the built
\* inputs gives the outputs
Call(value, inputs) ==
    CASE value.fn = "ResolveTodo" ->
            <<findTodo(value.recv.Todos.elems, inputs[1].ID, 1)>>
      [] value.fn = "Count" -> <<DataVal("int", 2)>>
      [] value.fn = "ResolveCreateTodo" ->
            <<TodoVal("new", inputs[1].Title, FALSE, "open", NilPtr, NilSlice)>>
      [] value.fn = "ResolveUpdateTodo" ->
            LET found == findTodo(value.recv.Todos.elems, inputs[2].ID, 1)
            IN  IF found.nil
                THEN <<ZeroTodo, ErrorValue("todo not found")>>
                ELSE <<[found.elem EXCEPT
                          !.Title = IF inputs[2].Title.nil THEN @
                                    ELSE DataVal("string", inputs[2].Title.elem),
                          !.Done = IF inputs[2].Done.nil THEN @
                                   ELSE DataVal("bool", inputs[2].Done.elem)],
                        NilError>>

-----------------------------------------------------------------------------
(* valueToJson, resolve.go:462-576 (the float kinds, whose floatToJson is  *)
(* not part of the sources, left out)                                      *)

RECURSIVE valueToJson(_)
valueToJson(in) ==
    CASE in.kind = "string" -> Quote(in.v)
      [] in.kind = "bool" -> IF in.v THEN "true" ELSE "false"
      [] in.kind = "int" -> ToString(in.v)
      [] in.kind = "ptr" -> IF in.v.nil THEN "null" ELSE valueToJson(in.v.elem)
      [] OTHER -> "null"

-----------------------------------------------------------------------------
(* The executor, resolve.go:72-182 and 352-460.  Every operation takes the *)
(* Ctx and gives it back with the errors it added.  The Ctx of the model   *)
(* also keeps two logs of what happened during the call: calls, the user   *)
(* methods invoked with their inputs, and fields, the fields resolveField  *)
(* was entered for with their depth.                                       *)

NewCtx(fragments) ==
    [fragments |-> fragments, directvies |-> <<>>, errors |-> <<>>,
     calls |-> <<>>, fields |-> <<>>]

addErr(c, err) == [c EXCEPT !.errors = Append(@, err)]

\* resolve.go:156-163: the member a field contributes to its object
member(query, data) ==
    LET name == IF Len(query.alias) > 0 THEN query.alias ELSE query.name
    IN  "\"" \o name \o "\":" \o data

\* resolve.go:118-123, 134-139, 145-149: res with value appended
appendMember(res, writtenToRes, value) ==
    IF writtenToRes THEN res \o "," \o value ELSE res \o value

\* resolve.go:133, 143: whether a fragment's content is written
hasContent(value) == Len(value) > 0

\* a depth check that lets one more level through
depthReachedLate(dept) == dept > schema.MaxDepth

\* resolve.go:102: the depth check
depthReached(dept) == dept >= schema.MaxDepth

\* the *Ctx a method with a context parameter is given
CtxInput == [isCtx |-> TRUE]

RECURSIVE resolveSelectionContent(_, _, _, _, _)
RECURSIVE resolveFieldDataValue(_, _, _, _, _)

\* resolve.go:107: the braces around the content
objectOf(r) == [out |-> "{" \o r.out \o "}", ctx |-> r.ctx]

\* resolve.go:101-108
resolveSelection(c, selectionSet, struct_, structType, dept) ==
    IF depthReached(dept)
    THEN [out |-> "null", ctx |-> addErr(c, "reached max dept")]
    ELSE objectOf(resolveSelectionContent(c, selectionSet, struct_, structType,
                                          (dept + 1) % 256))

\* resolve.go:158-163, 181: the member of the field with its data
memberOf(query, r) == [out |-> member(query, r.out), err |-> r.err, ctx |-> r.ctx]

\* resolve.go:172-178: the Go value behind a field
valueOf(structItem, struct_) ==
    IF structItem.customObjValue # None
    THEN structItem.customObjValue.value
    ELSE IF structItem.valueType = "Method" /\ structItem.method.isTypeMethod
    THEN MethodByName(struct_, structItem.structFieldName)
    ELSE FieldByName(struct_, structItem.structFieldName)

\* the log of the model: resolveField was entered for this field
enterField(c, query, dept) ==
    [c EXCEPT !.fields = Append(@, [name |-> query.name, dept |-> dept])]

\* resolve.go:156-182
resolveField(c, query, struct_, codeStructure, dept) ==
    IF query.name \notin DOMAIN codeStructure.objContents
    THEN [out |-> member(query, "null"), err |-> TRUE,
          ctx |-> addErr(enterField(c, query, dept),
                         "field " \o query.name \o " does not exists on "
                         \o codeStructure.typeName)]
    ELSE memberOf(query,
             resolveFieldDataValue(
                 enterField(c, query, dept), query,
                 valueOf(codeStructure.objContents[query.name], struct_),
                 codeStructure.objContents[query.name], dept))

\* a field written whether it errored or not
fieldWrittenAlways(r) == [ctx |-> r.ctx, value |-> r.out, write |-> TRUE]

\* resolve.go:116-124: what a field adds to the body
fieldWritten(r) == [ctx |-> r.ctx, value |-> r.out, write |-> ~r.err]

\* resolve.go:132-140, 142-150: what the content of a fragment adds to the body
fragmentWritten(r) == [ctx |-> r.ctx, value |-> r.out, write |-> hasContent(r.out)]

\* resolve.go:114-151: one selection of the loop
resolveOneSelection(c, selection, struct_, structType, dept) ==
    CASE selection.selectionType = "Field" ->
            fieldWritten(resolveField(c, selection.field, struct_, structType, dept))
      [] selection.selectionType = "FragmentSpread"
         /\ selection.fragmentSpread.name \notin DOMAIN c.fragments ->
            [ctx |-> addErr(c, "unknown fragment " \o selection.fragmentSpread.name),
             value |-> "", write |-> FALSE]
      [] selection.selectionType \in {"FragmentSpread", "InlineFragment"} ->
            fragmentWritten(
                resolveSelectionContent(
                    c,
                    IF selection.selectionType = "FragmentSpread"
                    THEN c.fragments[selection.fragmentSpread.name].selection
                    ELSE selection.inlineFragment.selection,
                    struct_, structType, dept))
      [] OTHER -> [ctx |-> c, value |-> "", write |-> FALSE]

RECURSIVE selectionLoop(_, _, _, _, _, _, _, _)

\* resolve.go:117-124: the loop goes on with what selection i added
selectionWritten(w, selectionSet, i, res, writtenToRes, struct_, structType, dept) ==
    IF w.write
    THEN selectionLoop(w.ctx, selectionSet, i + 1,
                       appendMember(res, writtenToRes, w.value), TRUE,
                       struct_, structType, dept)
    ELSE selectionLoop(w.ctx, selectionSet, i + 1, res, writtenToRes,
                       struct_, structType, dept)

\* resolve.go:113-153: the loop, from selection i on
selectionLoop(c, selectionSet, i, res, writtenToRes, struct_, structType, dept) ==
    IF i > Len(selectionSet) THEN [out |-> res, ctx |-> c]
    ELSE selectionWritten(
             resolveOneSelection(c, selectionSet[i], struct_, structType, dept),
             selectionSet, i, res, writtenToRes, struct_, structType, dept)

\* resolve.go:110-154
resolveSelectionContent(c, selectionSet, struct_, structType, dept) ==
    selectionLoop(c, selectionSet, 1, "", FALSE, struct_, structType, dept)

RECURSIVE matchArguments(_, _, _, _, _)

\* resolve.go:378-382: the outcome of coercing one argument
argumentMatched(r, c, query, order, inputs, method) ==
    IF r.err # <<>>
    THEN [ctx |-> addErr(c, r.err[1] \o ", function: " \o query.name
                            \o ", property: " \o query.arguments[Head(order)].key),
          inputs |-> inputs, failed |-> TRUE]
    ELSE matchArguments(
             c, query, Tail(order),
             [inputs EXCEPT
                 ![method.inFields[query.arguments[Head(order)].key].inputIdx + 1]
                  [method.inFields[query.arguments[Head(order)].key].input.goFieldName]
                     = r.val],
             method)

\* resolve.go:376-378: the coercion of one argument into its field of the inputs
matchArgument(queryValue, inField, inputs) ==
    matchInputValue(queryValue,
                    inputs[inField.inputIdx + 1][inField.input.goFieldName],
                    inField.input)

\* resolve.go:370-383: the supplied arguments, in map order, coerced into the
\* inputs; failed when a coercion returned an error
matchArguments(c, query, order, inputs, method) ==
    IF order = <<>> THEN [ctx |-> c, inputs |-> inputs, failed |-> FALSE]
    ELSE IF query.arguments[Head(order)].key \notin DOMAIN method.inFields
    THEN matchArguments(
             addErr(c, "undefined function " \o query.name \o " input: "
                       \o query.arguments[Head(order)].key),
             query, Tail(order), inputs, method)
    ELSE argumentMatched(
             matchArgument(query.arguments[Head(order)].value,
                           method.inFields[query.arguments[Head(order)].key],
                           inputs),
             c, query, order, inputs, method)

\* resolve.go:361-368: the inputs of the call, before the arguments are set
newInputs(method) ==
    [k \in 1..Len(method.ins) |->
        IF method.ins[k].isCtx THEN CtxInput ELSE Zero(method.ins[k].type_)]

\* resolve.go:387-388: the error output of the call
errorOut(method, outs) ==
    IF method.errorOutNr = <<>> THEN NilError ELSE outs[method.errorOutNr[1] + 1]

\* the log of the model: the user's method was invoked with these inputs
logCall(c, value, inputs) ==
    [c EXCEPT !.calls = Append(@, [fn |-> value.fn, inputs |-> inputs])]

\* resolve.go:387-400: the error output recorded, the value output resolved
methodReturned(c, query, errOut, out, method, dept) ==
    IF ~errOut.nil /\ ~errOut.isError
    THEN [out |-> "null", err |-> TRUE,
          ctx |-> addErr(c, "field " \o query.name
                            \o " returned a invalid kind of error")]
    ELSE resolveFieldDataValue(IF ~errOut.nil THEN addErr(c, errOut.msg) ELSE c,
                               query, out, method.outType, dept)

\* resolve.go:385: value.Call(inputs)
callMethod(c, query, value, inputs, outs, method, dept) ==
    methodReturned(logCall(c, value, inputs), query, errorOut(method, outs),
                   outs[method.outNr + 1], method, dept)

\* the call made also after a failed coercion
argumentsMatchedOrNot(m, query, value, method, dept) ==
    callMethod(m.ctx, query, value, m.inputs, Call(value, m.inputs), method, dept)

\* resolve.go:379-385: no call after a failed coercion
argumentsMatched(m, query, value, method, dept) ==
    IF m.failed THEN [out |-> "null", err |-> TRUE, ctx |-> m.ctx]
    ELSE callMethod(m.ctx, query, value, m.inputs, Call(value, m.inputs),
                    method, dept)

RECURSIVE resolveElements(_, _, _, _, _, _)

\* an element that errored left out of the list
elementResolvedUnlessErrored(r, query, elems, list, codeStructure, dept) ==
    resolveElements(r.ctx, query, elems, Append(list, IF r.err THEN "" ELSE r.out),
                    codeStructure, dept)

\* resolve.go:414-415: the element's result appended, its error flag dropped
elementResolved(r, query, elems, list, codeStructure, dept) ==
    resolveElements(r.ctx, query, elems, Append(list, r.out), codeStructure, dept)

\* resolve.go:412-416: the elements of a list after those already in list
resolveElements(c, query, elems, list, codeStructure, dept) ==
    IF Len(list) >= Len(elems) THEN [list |-> list, ctx |-> c]
    ELSE elementResolved(
             resolveFieldDataValue(c, query, elems[Len(list) + 1], codeStructure, dept),
             query, elems, list, codeStructure, dept)

\* resolve.go:417
listOf(r) == [out |-> "[" \o Join(r.list, ",") \o "]", err |-> FALSE, ctx |-> r.ctx]

\* resolve.go:433-434
selectionOf(r) == [out |-> r.out, err |-> FALSE, ctx |-> r.ctx]

\* resolve.go:352-460
resolveFieldDataValue(c, query, value, codeStructure, dept) ==
    CASE codeStructure.valueType = "Method" ->
            IF value.nil THEN [out |-> "null", err |-> FALSE, ctx |-> c]
            ELSE argumentsMatched(
                     matchArguments(c, query, IterOrder(Len(query.arguments)),
                                    newInputs(codeStructure.method),
                                    codeStructure.method),
                     query, value, codeStructure.method, dept)
      [] codeStructure.valueType = "Array" ->
            IF value.nil THEN [out |-> "null", err |-> FALSE, ctx |-> c]
            ELSE IF codeStructure.innerContent = None
            THEN [out |-> "null", err |-> TRUE,
                  ctx |-> addErr(c, "field " \o query.name
                             \o " does not have an internal type of an array")]
            ELSE listOf(resolveElements(c, query, value.elems, <<>>,
                                        codeStructure.innerContent, dept))
      [] codeStructure.valueType \in {"Obj", "ObjRef"} ->
            IF Len(query.selection) = 0
            THEN [out |-> "null", err |-> TRUE,
                  ctx |-> addErr(c, "field " \o query.name \o " must have a selection")]
            ELSE IF codeStructure.valueType = "ObjRef"
                    /\ codeStructure.typeName \notin DOMAIN types
            THEN [out |-> "null", err |-> TRUE,
                  ctx |-> addErr(c, "field " \o query.name \o " cannot have a selection")]
            ELSE selectionOf(
                     resolveSelection(c, query.selection, value,
                                      IF codeStructure.valueType = "ObjRef"
                                      THEN types[codeStructure.typeName]
                                      ELSE codeStructure,
                                      dept))
      [] codeStructure.valueType = "Data" ->
            IF Len(query.selection) > 0
            THEN [out |-> "null", err |-> TRUE,
                  ctx |-> addErr(c, "field " \o query.name \o " cannot have a selection")]
            ELSE [out |-> valueToJson(value), err |-> FALSE, ctx |-> c]
      [] codeStructure.valueType = "Ptr" ->
            IF value.nil THEN [out |-> "null", err |-> FALSE, ctx |-> c]
            ELSE resolveFieldDataValue(c, query, value.elem,
                                       codeStructure.innerContent, dept)
      [] codeStructure.valueType = "Enum" ->
            IF value \notin DOMAIN enumValueKey[codeStructure.enumKey]
            THEN [out |-> "null", err |-> FALSE, ctx |-> c]
            ELSE [out |-> "\"" \o enumValueKey[codeStructure.enumKey][value] \o "\"",
                  err |-> FALSE, ctx |-> c]
      [] OTHER ->
            [out |-> "null", err |-> TRUE,
             ctx |-> addErr(c, "field " \o query.name \o " has invalid data type")]

\* resolve.go:82-84
pushDirectives(c, operator) ==
    IF Len(operator.directives) > 0
    THEN [c EXCEPT !.directvies = Append(@, operator.directives)]
    ELSE c

\* resolve.go:80-99
start(c, operator) ==
    CASE operator.operationType = "query" ->
            resolveSelection(pushDirectives(c, operator), operator.selection,
                             schema.rootQueryValue, rootQuery, 0)
      [] operator.operationType = "mutation" ->
            resolveSelection(pushDirectives(c, operator), operator.selection,
                             schema.rootQueryValue, rootMethod, 0)
      [] operator.operationType = "subscription" ->
            [out |-> "{}",
             ctx |-> addErr(pushDirectives(c, operator), "subscription not suppored yet")]
      [] OTHER ->
            [out |-> "{}",
             ctx |-> addErr(pushDirectives(c, operator),
                            operator.operationType \o " cannot be used as operator")]

-----------------------------------------------------------------------------
(* Schema.Resolve, resolve.go:27-70, one action per step of a call.  The   *)
(* callers run concurrently on the one schema.                             *)

Callers == 1..NumCallers

Returned(data, errors) == [data |-> data, errors |-> errors]

\* the keys of a map in the order a range over it gives them: any order
KeyOrders(m) ==
    {o \in [1..Cardinality(DOMAIN m) -> DOMAIN m] :
        \A i, j \in DOMAIN o : i # j => o[i] # o[j]}

\* resolve.go:63-67: the error for an operatorTarget that names no operator
invalidOperator(operatorTarget, operatorsList) ==
    operatorTarget \o " is not a valid operator, available operators: "
    \o Join(operatorsList, ", ")

\* a choice that asks for the target also when there is one operator
operatorChoiceByTarget(operatorsMap, operatorTarget) ==
    IF Cardinality(DOMAIN operatorsMap) = 0 THEN [kind |-> "empty", name |-> ""]
    ELSE IF operatorTarget = "" THEN [kind |-> "noTarget", name |-> ""]
    ELSE IF operatorTarget \in DOMAIN operatorsMap
    THEN [kind |-> "run", name |-> operatorTarget]
    ELSE [kind |-> "unknownTarget", name |-> ""]

\* resolve.go:44-69: which operator the call executes, if any
operatorChoice(operatorsMap, operatorTarget) ==
    LET n == Cardinality(DOMAIN operatorsMap)
    IN  CASE n = 0 -> [kind |-> "empty", name |-> ""]
          [] n = 1 -> [kind |-> "run", name |-> CHOOSE k \in DOMAIN operatorsMap : TRUE]
          [] OTHER ->
                IF operatorTarget = "" THEN [kind |-> "noTarget", name |-> ""]
                ELSE IF operatorTarget \in DOMAIN operatorsMap
                THEN [kind |-> "run", name |-> operatorTarget]
                ELSE [kind |-> "unknownTarget", name |-> ""]

\* a Lock that does not wait for the mutex
LockWithoutWaiting(p) ==
    /\ pc[p] = "start"
    /\ mutex' = p
    /\ pc' = [pc EXCEPT ![p] = "parse"]
    /\ UNCHANGED <<args, parsed, chosen, ctx, ret, schema, mapOrder, frame, coerce>>

\* resolve.go:28: s.m.Lock()
Lock(p) ==
    /\ pc[p] = "start"
    /\ mutex = 0
    /\ mutex' = p
    /\ pc' = [pc EXCEPT ![p] = "parse"]
    /\ UNCHANGED <<args, parsed, chosen, ctx, ret, schema, mapOrder, frame, coerce>>

\* resolve.go:31-42: the parse, the return on its errors, the new Ctx
Parse(p) ==
    /\ pc[p] = "parse"
    /\ LET r == ParseQueryAndCheckNames(args[p].query)
       IN  /\ parsed' = [parsed EXCEPT ![p] = r]
           /\ IF Len(r.errs) > 0
              THEN /\ ret' = [ret EXCEPT ![p] = Returned("{}", r.errs)]
                   /\ pc' = [pc EXCEPT ![p] = "return"]
                   /\ ctx' = ctx
              ELSE /\ ctx' = [ctx EXCEPT ![p] = NewCtx(r.fragments)]
                   /\ pc' = [pc EXCEPT ![p] = "choose"]
                   /\ ret' = ret
    /\ UNCHANGED <<mutex, args, chosen, schema, mapOrder, frame, coerce>>

\* resolve.go:44-69: the switch on the number of operators
Choose(p) ==
    /\ pc[p] = "choose"
    /\ LET operatorsMap == parsed[p].operatorsMap
           choice == operatorChoice(operatorsMap, args[p].operatorTarget)
       IN  CASE choice.kind = "empty" ->
                  /\ ret' = [ret EXCEPT ![p] = Returned("{}", <<>>)]
                  /\ pc' = [pc EXCEPT ![p] = "return"]
                  /\ chosen' = chosen
             [] choice.kind = "noTarget" ->
                  /\ ret' = [ret EXCEPT ![p] =
                               Returned("{}", <<"multiple operators without target">>)]
                  /\ pc' = [pc EXCEPT ![p] = "return"]
                  /\ chosen' = chosen
             [] choice.kind = "unknownTarget" ->
                  /\ \E operatorsList \in KeyOrders(operatorsMap) :
                        ret' = [ret EXCEPT ![p] =
                                  Returned("{}", <<invalidOperator(
                                      args[p].operatorTarget, operatorsList)>>)]
                  /\ pc' = [pc EXCEPT ![p] = "return"]
                  /\ chosen' = chosen
             [] choice.kind = "run" ->
                  /\ chosen' = [chosen EXCEPT ![p] = choice.name]
                  /\ pc' = [pc EXCEPT ![p] = "exec"]
                  /\ ret' = ret
    /\ UNCHANGED <<mutex, args, parsed, ctx, schema, mapOrder, frame, coerce>>

\* resolve.go:50-52, 60-61: ctx.start on the chosen operator and the return
\* of its result with the errors of the Ctx
Start(p) ==
    /\ pc[p] = "exec"
    /\ LET r == start(ctx[p], parsed[p].operatorsMap[chosen[p]])
       IN  /\ ctx' = [ctx EXCEPT ![p] = r.ctx]
           /\ ret' = [ret EXCEPT ![p] = Returned(r.out, r.ctx.errors)]
    /\ pc' = [pc EXCEPT ![p] = "return"]
    /\ UNCHANGED <<mutex, args, parsed, chosen, schema, mapOrder, frame, coerce>>

\* resolve.go:29: the deferred s.m.Unlock(), run as the call returns
Unlock(p) ==
    /\ pc[p] = "return"
    /\ mutex' = 0
    /\ pc' = [pc EXCEPT ![p] = "done"]
    /\ UNCHANGED <<args, parsed, chosen, ctx, ret, schema, mapOrder, frame, coerce>>

Next ==
    \E p \in Callers : Lock(p) \/ Parse(p) \/ Choose(p) \/ Start(p) \/ Unlock(p)

\* the state before any call: the schema as registered, each caller about to
\* call Resolve with one of the inputs
InitResolve(inputs, callers, roots, depths, orders) ==
    /\ mutex = 0
    /\ pc = [p \in Callers |-> IF p \in callers THEN "start" ELSE "off"]
    /\ \E a \in [callers -> inputs] :
          args = [p \in Callers |-> IF p \in callers THEN a[p] ELSE None]
    /\ parsed = [p \in Callers |-> None]
    /\ chosen = [p \in Callers |-> ""]
    /\ ctx = [p \in Callers |-> None]
    /\ ret = [p \in Callers |-> None]
    /\ \E root \in roots, depth \in depths :
          schema = [MaxDepth |-> depth, rootQueryValue |-> root]
    /\ mapOrder \in orders
    /\ frame = None
    /\ coerce = None

-----------------------------------------------------------------------------
(* The inputs of the model *)

Input_(query, operatorTarget) == [query |-> query, operatorTarget |-> operatorTarget]

\* the root value the examples of the specification run against
Root1 == RootVal(Slice(<<Todo1, Todo2>>), Slice(<<DataVal("string", "x")>>),
                 PtrTo(Todo1), [nil |-> FALSE, fn |-> "Count"])

IdentityOrder == [k \in 1..MaxArgs |-> k]

MapOrders ==
    {o \in [1..MaxArgs -> 1..MaxArgs] : \A i, j \in 1..MaxArgs : i # j => o[i] # o[j]}

\* the operators the concurrent callers send
OpA == Operator("query", "A", <<F("todos", <<F("id", <<>>)>>)>>)
OpB == Operator("query", "B", <<F("count", <<>>)>>)
OpS == Operator("subscription", "S", <<F("count", <<>>)>>)
OpM == Operator("mutation", "",
           <<Field("", "createTodo", <<Arg("title", StringValue("t"))>>,
                   <<F("title", <<>>)>>)>>)

CallDocs ==
    {Malformed, Document(<<>>), Document(<<OpA>>), Document(<<OpS>>),
     Document(<<OpA, OpB>>)}

CallInputs == {Input_(d, t) : d \in CallDocs, t \in {"", "B"}}

Init == InitResolve(CallInputs, Callers, {Root1}, {3}, {IdentityOrder})

Spec == Init /\ [][Next]_vars

\* single calls with every document of up to MaxOps of these operators
OperatorDocs == {Malformed} \cup {Document(d) : d \in SeqsUpTo({OpA, OpB, OpS, OpM}, MaxOps)}

OperatorInputs == {Input_(d, t) : d \in OperatorDocs, t \in {"", "A", "B", "Z"}}

InitOperators == InitResolve(OperatorInputs, {1}, {Root1}, {3}, {IdentityOrder})

SpecOperators == InitOperators /\ [][Next]_vars

-----------------------------------------------------------------------------
(* Calls of GenerateResponse *)

FrameData == {"{}", "null", "{\"count\":2}"}

FrameMessages ==
    {"boom", "say \"hi\"", "a\\b", "x,y", "reached max dept"}

\* the state in which no caller calls Resolve
Idle ==
    /\ mutex = 0
    /\ pc = [p \in Callers |-> "off"]
    /\ args = [p \in Callers |-> None]
    /\ parsed = [p \in Callers |-> None]
    /\ chosen = [p \in Callers |-> ""]
    /\ ctx = [p \in Callers |-> None]
    /\ ret = [p \in Callers |-> None]
    /\ schema = [MaxDepth |-> 3, rootQueryValue |-> Root1]

InitFrame ==
    /\ Idle
    /\ mapOrder = IdentityOrder
    /\ coerce = None
    /\ \E data \in FrameData, errors \in SeqsUpTo(FrameMessages, MaxErrors) :
          frame = [data |-> data, errors |-> errors, out |-> "", done |-> FALSE]

\* the transport frames a result
Respond ==
    /\ ~frame.done
    /\ frame' = [frame EXCEPT !.out = GenerateResponse(frame.data, frame.errors),
                              !.done = TRUE]
    /\ UNCHANGED <<mutex, pc, args, parsed, chosen, ctx, ret, schema, mapOrder, coerce>>

SpecFrame == InitFrame /\ [][Respond]_vars

-----------------------------------------------------------------------------
(* Calls of matchInputValue on a zero target *)

CoerceValues ==
    {IntValue(0), IntValue(5), IntValue(-3), IntValue(300),
     FloatValue("1.5"), StringValue("s"), StringValue(""), BoolValue(TRUE),
     BoolValue(FALSE), NullValue, VarValue("v"),
     EnumValue("OPEN"), EnumValue("HIGH"), EnumValue("ODD"), EnumValue("GONE"),
     ListValue(<<>>), ListValue(<<IntValue(1), StringValue("x")>>),
     ObjectValue(<<Arg("done", BoolValue(TRUE)),
                   Arg("and", ObjectValue(<<Arg("done", IntValue(1))>>))>>),
     ObjectValue(<<Arg("done", BoolValue(TRUE)), Arg("nope", NullValue)>>)}

ScalarKinds ==
    {"Bool", "String"} \cup SignedKinds \cup UnsignedKinds \cup FloatKinds

CoerceInputs ==
    {Input(k, "X") : k \in ScalarKinds}
    \cup {SliceInput(Input("Int", ""), "X"), Input("Array", "X"),
          StructRefInput("Filter", "X"),
          PtrInput(Input("String", ""), "X"),
          PtrInput(PtrInput(Input("Int8", ""), ""), "X"),
          PtrInput(StructRefInput("Filter", ""), "X"),
          EnumInput("String", "Status", "X"), EnumInput("Uint8", "Level", "X")}

InitCoerce ==
    /\ Idle
    /\ mapOrder \in MapOrders
    /\ frame = None
    /\ \E value \in CoerceValues, input \in CoerceInputs :
          coerce = [value |-> value, input |-> input,
                    out |-> Untouched(Zero(input)), done |-> FALSE]

\* one argument is coerced into a fresh target
Coerce ==
    /\ ~coerce.done
    /\ coerce' = [coerce EXCEPT
                     !.out = matchInputValue(coerce.value, Zero(coerce.input),
                                             coerce.input),
                     !.done = TRUE]
    /\ UNCHANGED <<mutex, pc, args, parsed, chosen, ctx, ret, schema, mapOrder, frame>>

SpecCoerce == InitCoerce /\ [][Coerce]_vars

-----------------------------------------------------------------------------
(* Single calls whose documents exercise the name checker *)

Query0 == Operator("query", "", <<>>)
QueryCount0 == Operator("query", "", <<F("count", <<>>)>>)
QueryFoo == Operator("query", "foo", <<>>)
QueryUnknown1 == Operator("query", "unknown_query_1", <<>>)
Mutation0 == Operator("mutation", "", <<>>)
MutationBar == Operator("mutation", "bar", <<>>)
Subscription0 == Operator("subscription", "", <<>>)
SubscriptionBar == Operator("subscription", "bar", <<>>)
FragmentBaz == Fragment("baz", <<>>)

NameDefs ==
    {Query0, QueryCount0, QueryFoo, QueryUnknown1, Mutation0, MutationBar,
     Subscription0, SubscriptionBar, FragmentBaz}

\* the documents of the tests of part_001
TestSimple == Document(<<Query0>>)
TestWithFragment ==
    Document(<<Operator("query", "QueryThoseHumans", <<>>),
               Fragment("Human", <<F("name", <<>>), F("appearsIn", <<>>),
                                   F("friends", <<F("name", <<>>)>>)>>)>>)
TestUnnamed == Document(<<Query0, Query0, Query0, Mutation0, Subscription0>>)
TestDuplicates ==
    Document(<<QueryFoo, QueryFoo, MutationBar, SubscriptionBar,
               FragmentBaz, FragmentBaz>>)

NameDocs ==
    {Malformed, TestSimple, TestWithFragment, TestUnnamed, TestDuplicates}
    \cup {Document(d) : d \in SeqsUpTo(NameDefs, MaxDefs)}

InitNames ==
    InitResolve({Input_(d, "") : d \in NameDocs}, {1}, {Root1}, {3}, {IdentityOrder})

SpecNames == InitNames /\ [][Next]_vars

-----------------------------------------------------------------------------
(* Single calls with queries nested up to MaxNest selection sets deep,     *)
(* under every MaxDepth up to MaxMaxDepth, on a root with data and on an   *)
(* empty root                                                              *)

RootEmpty == RootVal(NilSlice, NilSlice, NilPtr, [nil |-> TRUE, fn |-> ""])

\* the selection sets on a todo with k more selection sets below them
RECURSIVE TodoSelections(_)
TodoSelections(k) ==
    IF k = 0 THEN {<<F("id", <<>>)>>}
    ELSE {<<F(n, s)>> : n \in {"next", "subs"}, s \in TodoSelections(k - 1)}
         \cup {<<F("id", <<>>), InlineFragment(<<F("next", s)>>)>> :
                  s \in TodoSelections(k - 1)}

RootSelections(k) ==
    {<<F(n, s)>> : n \in {"first", "todos"}, s \in TodoSelections(k - 1)}

DepthInputs ==
    {Input_(Document(<<Operator("query", "", s)>>), "") :
        s \in UNION {RootSelections(k) : k \in 1..(MaxNest - 1)}}

InitDepth ==
    InitResolve(DepthInputs, {1}, {Root1, RootEmpty}, 1..MaxMaxDepth, {IdentityOrder})

SpecDepth == InitDepth /\ [][Next]_vars

-----------------------------------------------------------------------------
(* Single calls whose root selection set is any sequence of up to MaxWidth *)
(* of these selections: fields that resolve, fields that error, fragment   *)
(* spreads and inline fragments that contribute members or nothing         *)

FragmentKnown == Fragment("Known", <<F("count", <<>>), Field("n", "count", <<>>, <<>>)>>)
FragmentAllErr == Fragment("AllErr", <<F("nope", <<>>), F("first", <<>>)>>)

SelectionItems ==
    {F("count", <<>>),
     Field("c", "count", <<>>, <<>>),
     F("nope", <<>>),
     F("first", <<>>),
     F("first", <<F("nope", <<>>), F("id", <<>>), FragmentSpread("AllErr"),
                  Field("t", "title", <<>>, <<>>)>>),
     FragmentSpread("Known"),
     FragmentSpread("AllErr"),
     FragmentSpread("Unknown"),
     InlineFragment(<<>>),
     InlineFragment(<<F("nope", <<>>),
                      InlineFragment(<<F("nope", <<>>), Field("a", "count", <<>>, <<>>)>>),
                      FragmentSpread("Unknown"),
                      Field("b", "count", <<>>, <<>>)>>)}

SelectionInputs ==
    {Input_(Document(<<Operator("query", "", s), FragmentKnown, FragmentAllErr>>), "") :
        s \in SeqsUpTo(SelectionItems, MaxWidth)}

InitSelection == InitResolve(SelectionInputs, {1}, {Root1}, {3}, {IdentityOrder})

SpecSelection == InitSelection /\ [][Next]_vars

-----------------------------------------------------------------------------
(* Single calls of one method field with up to MaxArgs of these arguments, *)
(* under every iteration order of the argument map, on a root whose        *)
(* function-valued field count is set and on one where it is nil           *)

RootNoCount == RootVal(Slice(<<Todo1, Todo2>>), Slice(<<DataVal("string", "x")>>),
                       PtrTo(Todo1), [nil |-> TRUE, fn |-> ""])

\* arguments whose literal fits the type of the argument
GoodArguments ==
    {Arg("id", StringValue("1")), Arg("id", StringValue("9")),
     Arg("title", StringValue("z")), Arg("title", NullValue),
     Arg("done", BoolValue(TRUE)), Arg("rank", IntValue(7))}

\* arguments whose literal does not
BadArguments ==
    {Arg("id", IntValue(5)), Arg("title", BoolValue(TRUE)), Arg("done", StringValue("no"))}

\* an argument no method declares
UnknownArguments == {Arg("bogus", IntValue(1))}

\* the argument maps: no key twice
ArgumentMaps ==
    {m \in SeqsUpTo(GoodArguments \cup BadArguments \cup UnknownArguments, MaxArgs) :
        \A i, j \in 1..Len(m) : i # j => m[i].key # m[j].key}

MethodFields ==
    {[operationType |-> "query", name |-> "count", selection |-> <<>>],
     [operationType |-> "query", name |-> "todo", selection |-> <<F("id", <<>>)>>],
     [operationType |-> "mutation", name |-> "updateTodo",
      selection |-> <<F("title", <<>>), F("done", <<>>)>>]}

MethodInputs ==
    {Input_(Document(<<Operator(f.operationType, "",
                                <<Field("", f.name, m, f.selection)>>)>>), "") :
        f \in MethodFields, m \in ArgumentMaps}

InitMethod == InitResolve(MethodInputs, {1}, {Root1, RootNoCount}, {3}, MapOrders)

SpecMethod == InitMethod /\ [][Next]_vars

-----------------------------------------------------------------------------
(* Single calls that query a list field next to a leaf, with and without   *)
(* a selection, on roots whose list is nil, empty or of up to MaxList      *)
(* elements                                                                *)

TodoLists ==
    {NilSlice} \cup {Slice(l) : l \in SeqsUpTo({Todo1, Todo2, Todo3}, MaxList)}

TagLists ==
    {NilSlice}
    \cup {Slice(l) : l \in SeqsUpTo({DataVal("string", "x"), DataVal("string", "y")},
                                    MaxList)}

ListRoots ==
    {RootVal(l, Slice(<<DataVal("string", "x")>>), PtrTo(Todo1),
             [nil |-> FALSE, fn |-> "Count"]) : l \in TodoLists}
    \cup {RootVal(Slice(<<Todo1>>), l, PtrTo(Todo1),
                  [nil |-> FALSE, fn |-> "Count"]) : l \in TagLists}

ListFields ==
    {F("todos", <<>>), F("todos", <<F("id", <<>>)>>), F("todos", <<F("nope", <<>>)>>),
     F("todos", <<F("subs", <<F("id", <<>>)>>)>>),
     F("tags", <<>>), F("tags", <<F("x", <<>>)>>)}

ListInputs ==
    {Input_(Document(<<Operator("query", "", <<F("count", <<>>), f>>)>>), "") :
        f \in ListFields}

InitList == InitResolve(ListInputs, {1}, ListRoots, {1, 3}, {IdentityOrder})

SpecList == InitList /\ [][Next]_vars

-----------------------------------------------------------------------------
(* Helpers of the properties *)

\* whether sub occurs in s
Contains(s, sub) ==
    \E i \in 1..(Len(s) - Len(sub) + 1) : SubSeq(s, i, i + Len(sub) - 1) = sub

\* the callers inside Resolve, between s.m.Lock() and the deferred s.m.Unlock()
InCall(p) == pc[p] \in {"parse", "choose", "exec", "return"}

\* the caller has returned, and its document parsed without errors
ReturnedParsed(p) == pc[p] = "done" /\ Len(parsed[p].errs) = 0

NumOperators(p) == Cardinality(DOMAIN parsed[p].operatorsMap)

\* what executing operator name of caller p's document returns
Executed(p, name) ==
    LET r == start(NewCtx(parsed[p].fragments), parsed[p].operatorsMap[name])
    IN  Returned(r.out, r.ctx.errors)

\* nothing was resolved and no user method invoked during caller p's call
NothingResolved(p) == ctx[p].fields = <<>> /\ ctx[p].calls = <<>>

-----------------------------------------------------------------------------
(* C1: a document that parses is answered by the number of its operators:  *)
(* one operator is executed whatever operatorTarget is; none gives "{}"    *)
(* and no errors; with two or more the operator named operatorTarget is    *)
(* executed, an empty operatorTarget gives "{}" and the one error          *)
(* "multiple operators without target", and an operatorTarget naming no    *)
(* operator gives "{}" and one error that names every available operator.  *)
(* In the two error cases nothing is resolved and no method is invoked.    *)
C1_OperatorChoice ==
    \A p \in Callers : ReturnedParsed(p) =>
        LET n == NumOperators(p)
            names == DOMAIN parsed[p].operatorsMap
            target == args[p].operatorTarget
        IN  /\ n = 0 => ret[p] = Returned("{}", <<>>)
            /\ n = 1 => \E name \in names : ret[p] = Executed(p, name)
            /\ n >= 2 /\ target \in names => ret[p] = Executed(p, target)
            /\ n >= 2 /\ target = "" =>
                  /\ ret[p] = Returned("{}", <<"multiple operators without target">>)
                  /\ NothingResolved(p)
            /\ n >= 2 /\ target # "" /\ target \notin names =>
                  /\ ret[p].data = "{}"
                  /\ Len(ret[p].errors) = 1
                  /\ \A name \in names : Contains(ret[p].errors[1], name)
                  /\ Contains(ret[p].errors[1], target)
                  /\ NothingResolved(p)

\* a call with three operators and a target naming none of them has returned
\* "{}" and its one error
C1_Witness ==
    \E p \in Callers :
        /\ ReturnedParsed(p)
        /\ NumOperators(p) = 3
        /\ args[p].operatorTarget = "Z"
        /\ ret[p].data = "{}"
        /\ Len(ret[p].errors) = 1

-----------------------------------------------------------------------------
-----------------------------------------------------------------------------
\* the response the specification describes: a comma between the data member
\* and the errors member
ExpectedResponse(data, errors) ==
    IF Len(errors) = 0 THEN "{\"data\":" \o data \o "}"
    ELSE "{\"data\":" \o data \o ",\"errors\":["
         \o Join([i \in 1..Len(errors) |-> "{\"message\":" \o Quote(errors[i]) \o "}"],
                 ",")
         \o "]}"

(* C2: GenerateResponse returns {"data":<data>} without errors and         *)
(* {"data":<data>,"errors":[e1,...,en]} with them: a comma between the two *)
(* members, the entries {"message":<escaped message>} in the order of the  *)
(* errors, separated by single commas.                                     *)
C2_Response ==
    frame.done => frame.out = ExpectedResponse(frame.data, frame.errors)

-----------------------------------------------------------------------------
\* the pairs of a scalar literal and a target kind the matrix calls compatible
Compatible(valType, kind) ==
    \/ valType = "Int" /\ kind \in SignedKinds \cup UnsignedKinds \cup FloatKinds
    \/ valType = "Float64" /\ kind \in FloatKinds
    \/ valType = "String" /\ kind = "String"
    \/ valType = "Bool" /\ kind = "Bool"

IsScalarLiteral(value) ==
    /\ ~value.isVar /\ ~value.isNull /\ ~value.isEnum
    /\ value.valType \in {"Int", "Float64", "String", "Bool"}

(* C9: a scalar literal coerced into a non-pointer target is assigned,     *)
(* without error, exactly when the pair is compatible (Int with the signed,*)
(* unsigned and float kinds, Float with the float kinds, String with       *)
(* string, Bool with bool); every other pair returns the kind-mismatch     *)
(* error and leaves the target at its zero value.  A null literal returns  *)
(* no error and leaves the target at zero; a variable reference always     *)
(* returns the not-supported error.                                        *)
C9_ScalarMatrix ==
    coerce.done =>
        LET value == coerce.value
            input == coerce.input
            r == coerce.out
        IN  /\ IsScalarLiteral(value) /\ input.kind # "Ptr" =>
                  IF Compatible(value.valType, input.kind)
                  THEN /\ r.err = <<>>
                       /\ r.assigned
                       /\ value.valType \in {"String", "Bool"} => r.val = value.v
                       /\ value.valType = "Int" /\ input.kind \in {"Int", "Int32", "Int64"}
                             => r.val = value.v
                  ELSE /\ Len(r.err) = 1
                       /\ Contains(r.err[1], "type missmatch expected")
                       /\ ~r.assigned
                       /\ r.val = Zero(input)
            /\ value.isNull => r.err = <<>> /\ ~r.assigned /\ r.val = Zero(input)
            /\ value.isVar =>
                  /\ r.err = <<"variable function arguments are currently unsupported">>
                  /\ r.val = Zero(input)

\* an Int literal has been assigned to a float target, a Float literal refused
\* by an integer one
C9_Witness ==
    /\ coerce.done
    /\ \/ /\ coerce.value = IntValue(5) /\ coerce.input.kind = "Float32"
          /\ coerce.out.assigned /\ coerce.out.err = <<>>
       \/ /\ coerce.value = FloatValue("1.5") /\ coerce.input.kind = "Uint16"
          /\ coerce.out.err # <<>>

-----------------------------------------------------------------------------
(* The names of a document's definitions, as the specification gives them  *)

IsOperator(item) == ~item.isFragment
IsUnnamed(item) == ~item.isFragment /\ item.name = ""

\* the unnamed operators of kind k among the first i definitions
UnnamedUpTo(defs, i, k) ==
    {j \in 1..i : IsUnnamed(defs[j]) /\ defs[j].operationType = k}

\* the name definition i goes by: its own, or unknown_<kind>_<n>
NameOf(defs, i) ==
    IF IsUnnamed(defs[i])
    THEN "unknown_" \o defs[i].operationType \o "_"
         \o ToString(Cardinality(UnnamedUpTo(defs, i, defs[i].operationType)))
    ELSE defs[i].name

\* definition i repeats the name of an earlier operator (of any kind) when it
\* is an operator, of an earlier fragment when it is a fragment
RepeatsName(defs, i) ==
    \E j \in 1..(i - 1) :
        /\ defs[j].isFragment = defs[i].isFragment
        /\ NameOf(defs, j) = NameOf(defs, i)

\* caller p's document parsed and went through the name checker
NamesChecked(p) == parsed[p] # None /\ args[p].query.syntaxOk

(* C7: every operator definition whose name repeats the name of an earlier *)
(* operator, of the same or another kind, and every fragment definition    *)
(* whose name repeats an earlier fragment's adds exactly one error, and    *)
(* the operator map and the fragment map hold one entry per distinct name. *)
(* The document of the test (two query foo, mutation bar and subscription  *)
(* bar, two fragment baz) gives 3 errors, 2 operators and 1 fragment.      *)
C7_DuplicateNames ==
    \A p \in Callers : NamesChecked(p) =>
        LET defs == args[p].query.defs
            all == 1..Len(defs)
        IN  /\ Len(parsed[p].errs) = Cardinality({i \in all : RepeatsName(defs, i)})
            /\ DOMAIN parsed[p].operatorsMap =
                  {NameOf(defs, i) : i \in {j \in all : IsOperator(defs[j])}}
            /\ DOMAIN parsed[p].fragments =
                  {NameOf(defs, i) : i \in {j \in all : defs[j].isFragment}}
            /\ args[p].query = TestDuplicates =>
                  /\ Len(parsed[p].errs) = 3
                  /\ Cardinality(DOMAIN parsed[p].operatorsMap) = 2
                  /\ Cardinality(DOMAIN parsed[p].fragments) = 1

\* the document of the test has been checked
C7_Witness ==
    \E p \in Callers :
        /\ NamesChecked(p)
        /\ args[p].query = TestDuplicates
        /\ Len(parsed[p].errs) = 3

\* the n-th unnamed operator of kind k is in the map under unknown_<k>_<n>
UnnamedKept(p, defs) ==
    \A i \in 1..Len(defs) : IsUnnamed(defs[i]) =>
        /\ NameOf(defs, i) \in DOMAIN parsed[p].operatorsMap
        /\ parsed[p].operatorsMap[NameOf(defs, i)].operationType = defs[i].operationType
        /\ parsed[p].operatorsMap[NameOf(defs, i)].selection = defs[i].selection

\* the map holds as many operators as the document
AllOperatorsKept(p, defs) ==
    Cardinality(DOMAIN parsed[p].operatorsMap)
        = Cardinality({i \in 1..Len(defs) : IsOperator(defs[i])})

\* no error is about an unnamed operator
NoUnnamedError(p, defs) ==
    Len(parsed[p].errs)
        = Cardinality({i \in 1..Len(defs) : ~IsUnnamed(defs[i]) /\ RepeatsName(defs, i)})

\* no operator of the document is given a name of the form unknown_<kind>_<n>
NoSyntheticNameGiven(defs) ==
    \A i \in 1..Len(defs) : IsOperator(defs[i]) /\ ~IsUnnamed(defs[i]) =>
        ~(Len(defs[i].name) >= 8 /\ SubSeq(defs[i].name, 1, 8) = "unknown_")

\* the map holds the operators of the document but those that repeat a name
DistinctOperatorsKept(p, defs) ==
    Cardinality(DOMAIN parsed[p].operatorsMap)
        = Cardinality({i \in 1..Len(defs) : IsOperator(defs[i]) /\ ~RepeatsName(defs, i)})

(* C8 as stated: for every document with unnamed operators, the operator   *)
(* map holds unknown_K_1 ... unknown_K_N for the N unnamed operators of    *)
(* each kind K, numbered in document order, none of them lost or reported  *)
(* as a duplicate, and as many entries as the document has operators.      *)
C8_AsStated ==
    \A p \in Callers :
        NamesChecked(p) /\ (\E i \in 1..Len(args[p].query.defs) :
                               IsUnnamed(args[p].query.defs[i])) =>
            /\ UnnamedKept(p, args[p].query.defs)
            /\ NoUnnamedError(p, args[p].query.defs)
            /\ AllOperatorsKept(p, args[p].query.defs)

(* C8 amended: in a document none of whose operators is given a name of    *)
(* the form unknown_<kind>_<n>, the N unnamed operators of each kind K are *)
(* in the map under unknown_K_1 ... unknown_K_N in document order, none of *)
(* them lost or reported as a duplicate, and the map holds one entry for   *)
(* every operator of the document that does not repeat an earlier name:    *)
(* as many entries as operators when the given names are all different.    *)
C8_SyntheticNames ==
    \A p \in Callers :
        NamesChecked(p) /\ NoSyntheticNameGiven(args[p].query.defs) =>
            /\ UnnamedKept(p, args[p].query.defs)
            /\ NoUnnamedError(p, args[p].query.defs)
            /\ DistinctOperatorsKept(p, args[p].query.defs)
            /\ Len(parsed[p].errs) = 0 => AllOperatorsKept(p, args[p].query.defs)

\* the document of the test (three queries, a mutation and a subscription,
\* all unnamed) has been checked and its five operators are in the map
C8_Witness ==
    \E p \in Callers :
        /\ NamesChecked(p)
        /\ args[p].query = TestUnnamed
        /\ DOMAIN parsed[p].operatorsMap =
              {"unknown_query_1", "unknown_query_2", "unknown_query_3",
               "unknown_mutation_1", "unknown_subscription_1"}

-----------------------------------------------------------------------------
(* The selection sets of a query, as the specification reads them *)

\* the fields of a selection set in selection order, those of its inline
\* fragments and of its known fragment spreads in their place
RECURSIVE FieldsOf(_, _)
FieldsOf(selectionSet, fragments) ==
    IF selectionSet = <<>> THEN <<>>
    ELSE LET first == Head(selectionSet)
             rest == FieldsOf(Tail(selectionSet), fragments)
         IN  CASE first.selectionType = "Field" -> <<first.field>> \o rest
               [] first.selectionType = "InlineFragment" ->
                     FieldsOf(first.inlineFragment.selection, fragments) \o rest
               [] first.selectionType = "FragmentSpread"
                  /\ first.fragmentSpread.name \in DOMAIN fragments ->
                     FieldsOf(fragments[first.fragmentSpread.name].selection, fragments)
                     \o rest
               [] OTHER -> rest

Max(S) == CHOOSE x \in S : \A y \in S : y <= x

\* the object nesting depth of a query: 1 for a selection set of leaves
RECURSIVE NestDepth(_, _)
NestDepth(selectionSet, fragments) ==
    1 + Max({0} \cup {NestDepth(f.selection, fragments) :
                         f \in {g \in Range(FieldsOf(selectionSet, fragments)) :
                                   Len(g.selection) > 0}})

\* the objects behind a value of the schema: none behind a nil pointer, a nil
\* or empty list, or a leaf
RECURSIVE ObjectsOf(_, _)
ObjectsOf(value, codeStructure) ==
    CASE codeStructure.valueType = "Ptr" ->
            IF value.nil THEN {} ELSE ObjectsOf(value.elem, codeStructure.innerContent)
      [] codeStructure.valueType = "Array" ->
            IF value.nil THEN {}
            ELSE UNION {ObjectsOf(e, codeStructure.innerContent) : e \in Range(value.elems)}
      [] codeStructure.valueType = "ObjRef" -> {[value |-> value, type_ |-> types[codeStructure.typeName]]}
      [] codeStructure.valueType = "Obj" -> {[value |-> value, type_ |-> codeStructure]}
      [] OTHER -> {}

\* the execution comes to a selection set more than MaxDepth levels deep:
\* selectionSet is at the given level, on the object struct_, and one of its
\* fields with a selection exists on the object's type and leads to an
\* object, at a level beyond MaxDepth or with such a field itself
RECURSIVE ComesBeyondMaxDepth(_, _, _, _, _)
ComesBeyondMaxDepth(selectionSet, fragments, struct_, structType, level) ==
    \E f \in Range(FieldsOf(selectionSet, fragments)) :
        /\ Len(f.selection) > 0
        /\ f.name \in DOMAIN structType.objContents
        /\ \E o \in ObjectsOf(struct_[structType.objContents[f.name].structFieldName],
                             structType.objContents[f.name]) :
              \/ level + 1 > schema.MaxDepth
              \/ ComesBeyondMaxDepth(f.selection, fragments, o.value, o.type_, level + 1)

\* caller p's query has been executed
QueryExecuted(p) == pc[p] \in {"return", "done"} /\ ret[p] # None /\ chosen[p] # ""

RootSelection(p) == parsed[p].operatorsMap[chosen[p]].selection

DepthErrors(p) ==
    {i \in 1..Len(ret[p].errors) :
        ret[p].errors[i] \in {"reached max dept", "reached max depth"}}

(* C4 as stated (up to the spelling of the message): every query whose     *)
(* object nesting depth exceeds MaxDepth returns at least one reached max  *)
(* depth error.                                                            *)
C4_AsStated ==
    \A p \in Callers :
        QueryExecuted(p)
        /\ NestDepth(RootSelection(p), parsed[p].fragments) > schema.MaxDepth
        => DepthErrors(p) # {}

(* C4 amended: the fields of the root selection are resolved at depth 1    *)
(* and those of every selection set below at one more than the field that  *)
(* holds it, no field is resolved at a depth greater than MaxDepth, and    *)
(* the returned errors contain `reached max dept` exactly when the         *)
(* execution comes to a selection set more than MaxDepth levels deep: one  *)
(* whose enclosing fields all exist and lead to an object (a non-nil       *)
(* pointer, an element of a list).  The field of that selection set emits  *)
(* null and keeps its key.                                                 *)
C4_DepthEnforced ==
    \A p \in Callers : QueryExecuted(p) =>
        /\ \A i \in 1..Len(ctx[p].fields) :
              /\ ctx[p].fields[i].dept >= 1
              /\ ctx[p].fields[i].dept <= schema.MaxDepth
              /\ ctx[p].fields[i].name \in {"first", "todos"} <=> ctx[p].fields[i].dept = 1
        /\ DepthErrors(p) # {} <=>
              ComesBeyondMaxDepth(RootSelection(p), parsed[p].fragments,
                                  schema.rootQueryValue, rootQuery, 1)
        /\ \A i \in DepthErrors(p) : ret[p].errors[i] = "reached max dept"
        /\ (schema.MaxDepth = 1 /\ schema.rootQueryValue = Root1
            /\ RootSelection(p) = <<F("first", <<F("id", <<>>)>>)>>) =>
              ret[p] = Returned("{\"first\":null}", <<"reached max dept">>)
        /\ (schema.MaxDepth = 2 /\ schema.rootQueryValue = Root1
            /\ RootSelection(p) = <<F("first", <<F("next", <<F("id", <<>>)>>)>>)>>) =>
              ret[p] = Returned("{\"first\":{\"next\":null}}", <<"reached max dept">>)

\* a query three levels deep has been executed under MaxDepth 2 and came to
\* its third level
C4_Witness ==
    \E p \in Callers :
        /\ QueryExecuted(p)
        /\ schema.MaxDepth = 2
        /\ RootSelection(p) = <<F("first", <<F("next", <<F("id", <<>>)>>)>>)>>
        /\ ret[p].errors = <<"reached max dept">>
        /\ Len(ctx[p].fields) = 2

-----------------------------------------------------------------------------
\* the key of a field's member: its alias when it has one, else its name
KeyOf(f) == IF f.alias # "" THEN f.alias ELSE f.name

\* the resolutions of the fields of a selection set of the root, in order
Resolutions(p, fields) ==
    [i \in 1..Len(fields) |->
        resolveField(NewCtx(parsed[p].fragments), fields[i],
                     schema.rootQueryValue, rootQuery, 1)]

\* s starts with prefix
StartsWith(s, prefix) ==
    Len(s) >= Len(prefix) /\ SubSeq(s, 1, Len(prefix)) = prefix

\* the members of the resolutions that did not error
MembersOf(resolutions) ==
    LET kept == SelectSeq(resolutions, LAMBDA r : ~r.err)
    IN  [i \in 1..Len(kept) |-> kept[i].out]

(* C5: the object body of a selection set holds exactly the members of its *)
(* fields that resolved with erroredFlag false, those of its fragments in  *)
(* their place, in selection order, each keyed by its alias or else its    *)
(* name, separated by one comma each, with no leading, trailing or doubled *)
(* comma whatever errored or contributed nothing.                          *)
C5_ObjectBody ==
    \A p \in Callers : QueryExecuted(p) =>
        LET fields == FieldsOf(RootSelection(p), parsed[p].fragments)
            resolutions == Resolutions(p, fields)
        IN  /\ ret[p].data = "{" \o Join(MembersOf(resolutions), ",") \o "}"
            /\ \A i \in 1..Len(fields) :
                  StartsWith(resolutions[i].out, "\"" \o KeyOf(fields[i]) \o "\":")
            /\ ~Contains(ret[p].data, ",,")
            /\ ~Contains(ret[p].data, "{,")
            /\ ~Contains(ret[p].data, ",}")
            /\ RootSelection(p) = <<F("nope", <<>>), FragmentSpread("AllErr"),
                                   F("first", <<F("nope", <<>>), F("id", <<>>),
                                                FragmentSpread("AllErr"),
                                                Field("t", "title", <<>>, <<>>)>>)>> =>
                  ret[p].data = "{\"first\":{\"id\":\"1\",\"t\":\"a\"}}"
            /\ RootSelection(p) = <<FragmentSpread("Unknown"), FragmentSpread("Known"),
                                   Field("c", "count", <<>>, <<>>)>> =>
                  ret[p].data = "{\"count\":2,\"n\":2,\"c\":2}"

\* a selection set whose first two selections contribute nothing has been
\* resolved to the member of its third
C5_Witness ==
    \E p \in Callers :
        /\ QueryExecuted(p)
        /\ RootSelection(p) = <<F("nope", <<>>), FragmentSpread("AllErr"),
                               Field("c", "count", <<>>, <<>>)>>
        /\ ret[p].data = "{\"c\":2}"
        /\ Len(ret[p].errors) = 3

-----------------------------------------------------------------------------
(* The method fields of the schema, as their signatures declare them *)

\* the arguments a method field declares
Declared(name) ==
    CASE name = "todo" -> {"id"}
      [] name = "updateTodo" -> {"id", "title", "done", "rank"}
      [] OTHER -> {}

\* the field of the method's input struct an argument is coerced into
GoFieldOf(key) ==
    CASE key = "id" -> "ID"
      [] key = "title" -> "Title"
      [] key = "done" -> "Done"
      [] key = "rank" -> "Rank"

\* the Go value a fitting argument is coerced to: optional arguments are
\* pointers, nil for the null literal
CoercedValue(a) ==
    CASE a.key \in {"id", "rank"} -> a.value.v
      [] a.value.isNull -> NilPtr
      [] OTHER -> PtrTo(a.value.v)

\* the one field of caller p's query
MethodField(p) == RootSelection(p)[1].field

\* the supplied arguments in the order the argument map is iterated
Supplied(p) ==
    LET f == MethodField(p)
        order == IterOrder(Len(f.arguments))
    IN  [i \in 1..Len(order) |-> f.arguments[order[i]]]

\* the positions in Supplied(p) of the arguments whose coercion fails
FailingArguments(p) ==
    {i \in 1..Len(Supplied(p)) :
        /\ Supplied(p)[i].key \in Declared(MethodField(p).name)
        /\ Supplied(p)[i] \in BadArguments}

\* the errors for the undeclared arguments among the first n supplied
UndefinedErrors(p, n) ==
    LET undeclared == SelectSeq(SubSeq(Supplied(p), 1, n),
                                LAMBDA a : a.key \notin Declared(MethodField(p).name))
    IN  [i \in 1..Len(undeclared) |->
            "undefined function " \o MethodField(p).name \o " input: "
            \o undeclared[i].key]

\* the errors of the form <err>, function: F, property: P
CoercionErrors(p) ==
    {i \in 1..Len(ret[p].errors) : Contains(ret[p].errors[i], ", function: ")}

EndsWith(s, suffix) ==
    Len(s) >= Len(suffix) /\ SubSeq(s, Len(s) - Len(suffix) + 1, Len(s)) = suffix

\* the method value of the field is nil: a function-valued field not set
NilMethod(p) == MethodField(p).name = "count" /\ schema.rootQueryValue.Count.nil

Min(S) == CHOOSE x \in S : \A y \in S : x <= y

\* the coercion of a supplied argument failed: one error of the form
\* <err>, function: F, property: P, the field omitted, the method not invoked
CoercionFailed(p) ==
    LET first == Min(FailingArguments(p))
    IN  /\ ctx[p].calls = <<>>
        /\ ret[p].data = "{}"
        /\ Cardinality(CoercionErrors(p)) = 1
        /\ Len(ret[p].errors) = Len(UndefinedErrors(p, first - 1)) + 1
        /\ SubSeq(ret[p].errors, 1, Len(ret[p].errors) - 1) = UndefinedErrors(p, first - 1)
        /\ EndsWith(ret[p].errors[Len(ret[p].errors)],
                    ", function: " \o MethodField(p).name
                    \o ", property: " \o Supplied(p)[first].key)

\* the method was invoked once, with every declared supplied argument coerced
\* into its input; its error, if any, is recorded and its value serialised
InvokedOnce(p) ==
    LET f == MethodField(p)
        notFound == f.name = "updateTodo"
                    /\ Arg("id", StringValue("1")) \notin Range(Supplied(p))
    IN  /\ Len(ctx[p].calls) = 1
        /\ \A a \in Range(Supplied(p)) : a.key \in Declared(f.name) =>
              ctx[p].calls[1].inputs[Len(ctx[p].calls[1].inputs)][GoFieldOf(a.key)]
                  = CoercedValue(a)
        /\ CoercionErrors(p) = {}
        /\ StartsWith(ret[p].data, "{\"" \o f.name \o "\":")
        /\ ret[p].errors = UndefinedErrors(p, Len(Supplied(p)))
                           \o (IF notFound THEN <<"todo not found">> ELSE <<>>)
        /\ notFound => ret[p].data = "{\"updateTodo\":{\"title\":\"\",\"done\":false}}"

(* C6 as stated: when the coercion of a supplied argument fails there is   *)
(* exactly one error of the form <err>, function: F, property: P, the      *)
(* field is omitted and the method is not invoked; when every coercion     *)
(* succeeds the method is invoked exactly once.                            *)
C6_AsStated ==
    \A p \in Callers : QueryExecuted(p) =>
        IF FailingArguments(p) # {} THEN CoercionFailed(p)
        ELSE Len(ctx[p].calls) = 1

(* C6 amended: a method field whose method value is nil (a function-valued *)
(* field that is not set) emits null, is not marked errored, and nothing   *)
(* is coerced, recorded or invoked.  Otherwise the supplied arguments are  *)
(* coerced before the call; when a coercion fails exactly one error of the *)
(* form <err>, function: F, property: P is recorded, the field is omitted  *)
(* and the method is not invoked; when every coercion succeeds the method  *)
(* is invoked exactly once with the coerced inputs, a non-nil error return *)
(* is recorded and the value return is still serialised under its key.     *)
C6_MethodCall ==
    \A p \in Callers : QueryExecuted(p) =>
        CASE NilMethod(p) ->
                /\ ret[p] = Returned("{\"count\":null}", <<>>)
                /\ ctx[p].calls = <<>>
          [] FailingArguments(p) # {} -> CoercionFailed(p)
          [] OTHER -> InvokedOnce(p)

\* updateTodo has been called with an undeclared argument and an id of the
\* wrong type: the call returned the two errors and did not invoke the method
C6_Witness ==
    \E p \in Callers :
        /\ QueryExecuted(p)
        /\ MethodField(p).name = "updateTodo"
        /\ Supplied(p) = <<Arg("bogus", IntValue(1)), Arg("id", IntValue(5))>>
        /\ Len(ret[p].errors) = 2
        /\ ctx[p].calls = <<>>

-----------------------------------------------------------------------------
\* the list field of caller p's query and the list behind it
ListField(p) == RootSelection(p)[2]

ListValueOf(p) ==
    IF ListField(p).field.name = "todos" THEN schema.rootQueryValue.Todos
    ELSE schema.rootQueryValue.Tags

\* what one element of the list is to give for the field's selection: its
\* JSON and the errors of its resolution
ExpectedElement(f, e) ==
    CASE f = F("todos", <<>>) ->
            [out |-> "null", errors |-> <<"field todos must have a selection">>]
      [] f = F("tags", <<F("x", <<>>)>>) ->
            [out |-> "null", errors |-> <<"field tags cannot have a selection">>]
      [] f = F("tags", <<>>) -> [out |-> "\"" \o e.v \o "\"", errors |-> <<>>]
      [] schema.MaxDepth = 1 -> [out |-> "null", errors |-> <<"reached max dept">>]
      [] f = F("todos", <<F("id", <<>>)>>) ->
            [out |-> "{\"id\":\"" \o e.ID.v \o "\"}", errors |-> <<>>]
      [] f = F("todos", <<F("nope", <<>>)>>) ->
            [out |-> "{}", errors |-> <<"field nope does not exists on Todo">>]
      [] f = F("todos", <<F("subs", <<F("id", <<>>)>>)>>) ->
            [out |-> "{\"subs\":"
                     \o (CASE e = Todo1 -> "[{\"id\":\"2\"},{\"id\":\"3\"}]"
                           [] e = Todo2 -> "null"
                           [] e = Todo3 -> "[]")
                     \o "}",
             errors |-> <<>>]

RECURSIVE Concat(_)
Concat(seqs) == IF seqs = <<>> THEN <<>> ELSE Head(seqs) \o Concat(Tail(seqs))

=============================================================================
